---- MODULE Spec2Model ----
(***************************************************************************)
(* Streaming clients of lunar_capital:                                     *)
(*   - the dashboard client  (copilot/sockets/dash_socket.js)              *)
(*   - the market-intelligence client (copilot/js/sockets/mi_socket.js)    *)
(*   - the inline script of the dashboard template                         *)
(* Each client runs on its own page; the browser supplies the WebSocket    *)
(* objects, the timer table and the event loop.  One step of the model is  *)
(* one callback run to completion by the event loop.                       *)
(***************************************************************************)
EXTENDS Integers, Sequences, FiniteSets, TLC

VARIABLES
    page,            \* which script the loaded page runs
    location,        \* window.location of the page: protocol and host
    sockets,         \* browser: every WebSocket object created so far
    timers,          \* browser: the timer table, indexed by timer id
    dashSocket,      \* dash_socket.js: let dashSocket (0 is null)
    reconnectState,  \* dash_socket.js: { attempts, timeout } (timeout 0 is null)
    stopCalls,       \* number of beforeunload events delivered so far
    socket,          \* mi_socket.js: this.socket
    toast,           \* mi_socket.js: the last showToast(message, type)
    sent,            \* frames the page handed to WebSocket.send on an open socket
    dispatched,      \* number of message events handed to a message handler
    dom,             \* the page's elements: element key -> content
    last,            \* the callback that ran last and the exception it let escape
    attemptA,        \* backoff evaluation: first argument
    attemptB,        \* backoff evaluation: second argument
    delayA,          \* backoff evaluation: result for attemptA (-1 before)
    delayB           \* backoff evaluation: result for attemptB (-1 before)

vars == <<page, location, sockets, timers, dashSocket, reconnectState, stopCalls,
          socket, toast, sent, dispatched, dom, last, attemptA, attemptB, delayA, delayB>>

connVars == <<page, location, sockets, timers, dashSocket, reconnectState, stopCalls,
              socket, toast, sent, dispatched, dom, last>>

miVars == <<socket, toast, sent>>

dashVars == <<dashSocket, reconnectState, stopCalls>>

backoffVars == <<attemptA, attemptB, delayA, delayB>>

----------------------------------------------------------------------------
(* Bounds *)

MaxSockets == 5      \* WebSocket objects created during one page life
MaxStops == 2        \* beforeunload events delivered
MaxFrames == 2       \* inbound frames delivered
MaxSent == 2         \* outbound command frames queued on open sockets
MaxAttempt == 10     \* largest argument of the backoff evaluation

----------------------------------------------------------------------------
(* Program constants *)

RECONNECT_DELAY == 5000
MAX_RECONNECT_DELAY == 60000

Min(x, y) == IF x <= y THEN x ELSE y

\* variant: the cap is left out
exponentialBackoff_NoCap(attempts) == RECONNECT_DELAY * 2 ^ attempts

\* Math.min(RECONNECT_DELAY * 2 ** attempts, MAX_RECONNECT_DELAY)
exponentialBackoff(attempts) ==
    Min(RECONNECT_DELAY * 2 ^ attempts, MAX_RECONNECT_DELAY)

----------------------------------------------------------------------------
(* Browser: WebSocket objects and timers *)

\* new WebSocket(url)
WebSocket(url) ==
    [url |-> url, readyState |-> "CONNECTING", closeDelivered |-> FALSE]

\* WebSocket.close(): only a connecting or open socket starts closing
SocketClose(ss, i) ==
    IF i \in 1..Len(ss) /\ ss[i].readyState \in {"CONNECTING", "OPEN"}
    THEN [ss EXCEPT ![i].readyState = "CLOSING"]
    ELSE ss

\* setTimeout(cb, delay): the new id is the next index of the table
SetTimeout(ts, delay) == Append(ts, [delay |-> delay, status |-> "pending"])

\* clearTimeout(id): cancels the timer if it is still pending
ClearTimeout(ts, id) ==
    IF id \in 1..Len(ts) /\ ts[id].status = "pending"
    THEN [ts EXCEPT ![id].status = "cleared"]
    ELSE ts

\* new WebSocket(url) either returns the socket or throws
CtorOutcomes == {"ok", "DOMException"}

Pending(ts) == {t \in 1..Len(ts) : ts[t].status = "pending"}

\* the close task fires error and close back to back: nothing runs between
InCloseTask ==
    \E i \in 1..Len(sockets) :
        sockets[i].readyState = "CLOSED" /\ ~sockets[i].closeDelivered

\* the record kept in `last`: the callback, its argument, the exception that
\* escaped it and the callback that ran before it
Event(op, arg, raised) ==
    [op |-> op, arg |-> arg, raised |-> raised, prev |-> last.op]

----------------------------------------------------------------------------
(* JavaScript values, as far as the message handlers look at them *)

Undefined == [t |-> "undefined"]
Null == [t |-> "null"]
Str(v) == [t |-> "string", v |-> v]
\* numbers are held in thousandths: Num(18400) is 18.4
Num(v) == [t |-> "number", v |-> v]
Obj(fields) == [t |-> "object", fields |-> fields]
\* an object whose key order matters to the code (Object.entries)
OrdObj(keys, fields) == [t |-> "object", keys |-> keys, fields |-> fields]
Arr(items) == [t |-> "array", items |-> items]

\* ToBoolean
Truthy(x) ==
    CASE x.t = "undefined" -> FALSE
      [] x.t = "null" -> FALSE
      [] x.t = "string" -> x.v # ""
      [] x.t = "number" -> x.v # 0
      [] OTHER -> TRUE

Abs(n) == IF n < 0 THEN -n ELSE n

\* n / d rounded to the nearest integer, halves away from zero
RoundDiv(n, d) == (2 * n + d) \div (2 * d)

\* the decimal digits of n, left-padded with zeros to width w
RECURSIVE Pad(_, _)
Pad(n, w) ==
    IF w <= 1 THEN ToString(n)
    ELSE IF n < 10 ^ (w - 1) THEN "0" \o Pad(n, w - 1)
    ELSE ToString(n)

\* the fraction digits of f thousandths without trailing zeros
Fraction(f) ==
    IF f % 100 = 0 THEN ToString(f \div 100)
    ELSE IF f % 10 = 0 THEN Pad(f \div 10, 2)
    ELSE Pad(f, 3)

NaN == [t |-> "NaN"]

\* Number.prototype.toFixed(digits) of x: the decimal text with exactly
\* `digits` fraction digits
ToFixed(x, digits) ==
    IF x.t = "NaN" THEN "NaN"
    ELSE LET q == RoundDiv(Abs(x.v) * 10 ^ digits, 1000)
             text == ToString(q \div 10 ^ digits)
                     \o IF digits > 0 THEN "." \o Pad(q % 10 ^ digits, digits)
                                      ELSE ""
         IN IF x.v < 0 THEN "-" \o text ELSE text

\* x.toFixed is a function only on numbers; calling it on anything else
\* raises TypeError
HasToFixed(x) == x.t \in {"number", "NaN"}

\* String(x), as template literals and textContent assignment apply it
JSString(x) ==
    CASE x.t = "undefined" -> "undefined"
      [] x.t = "null" -> "null"
      [] x.t = "string" -> x.v
      [] x.t = "NaN" -> "NaN"
      [] x.t = "number" ->
           (IF x.v < 0 THEN "-" ELSE "")
           \o ToString(Abs(x.v) \div 1000)
           \o IF Abs(x.v) % 1000 = 0 THEN ""
              ELSE "." \o Fraction(Abs(x.v) % 1000)
      [] OTHER -> "[object Object]"

Raise(d, name) == [dom |-> d, raised |-> name]
Done(d) == [dom |-> d, raised |-> "none"]

\* statement sequencing: an exception skips the statements after it
Then(r, Stmt(_)) == IF r.raised # "none" THEN r ELSE Stmt(r.dom)

\* JSON.parse of the frames the model delivers
JSONParse(raw) ==
    CASE raw = "{\"volatility_index\":18.4}" ->
           [ok |-> TRUE, value |-> Obj([volatility_index |-> Num(18400)])]
      [] raw = "{\"market_status\":\"Bullish\",\"breadth_pct\":62.5,\"volatility_index\":21.37,\"volatility_change\":-0.023,\"technical_breadth\":{\"macd_bull_cross\":3,\"rsi_over_70\":2,\"pairs_evaluated\":28},\"session_activity\":\"High\",\"current_session\":\"London\"}" ->
           [ok |-> TRUE, value |-> Obj([
               market_status |-> Str("Bullish"),
               breadth_pct |-> Num(62500),
               volatility_index |-> Num(21370),
               volatility_change |-> Num(-23),
               technical_breadth |-> Obj([macd_bull_cross |-> Num(3000),
                                          rsi_over_70 |-> Num(2000),
                                          pairs_evaluated |-> Num(28000)]),
               session_activity |-> Str("High"),
               current_session |-> Str("London")])]
      [] raw = "{\"market_status\":\"Bearish\",\"breadth_pct\":\"n/a\"}" ->
           [ok |-> TRUE, value |-> Obj([market_status |-> Str("Bearish"),
                                        breadth_pct |-> Str("n/a")])]
      [] raw = "{\"session_activity\":\"Low\"}" ->
           [ok |-> TRUE, value |-> Obj([session_activity |-> Str("Low")])]
      [] raw = "{\"type\":\"heartbeat\",\"market_status\":\"Closed\"}" ->
           [ok |-> TRUE, value |-> Obj([type |-> Str("heartbeat"),
                                        market_status |-> Str("Closed")])]
      [] raw = "null" -> [ok |-> TRUE, value |-> Null]
      [] OTHER -> [ok |-> FALSE, value |-> Undefined]

\* the frames the dashboard stream delivers in the model
DashFrames ==
    { "{\"volatility_index\":18.4}",
      "{\"market_status\":\"Bullish\",\"breadth_pct\":62.5,\"volatility_index\":21.37,\"volatility_change\":-0.023,\"technical_breadth\":{\"macd_bull_cross\":3,\"rsi_over_70\":2,\"pairs_evaluated\":28},\"session_activity\":\"High\",\"current_session\":\"London\"}",
      "{\"market_status\":\"Bearish\",\"breadth_pct\":\"n/a\"}",
      "{\"session_activity\":\"Low\"}",
      "{\"type\":\"heartbeat\",\"market_status\":\"Closed\"}",
      "null",
      "Bullish 18.4" }

\* property read o.name: undefined when o is not an object or lacks name
Get(o, name) ==
    IF o.t = "object" /\ name \in DOMAIN o.fields THEN o.fields[name]
    ELSE Undefined

\* reading a property of null or undefined raises TypeError
CanRead(o) == o.t \notin {"null", "undefined"}

----------------------------------------------------------------------------
(* dash_socket.js: rendering *)

Template == "(template)"

\* elements of the dashboard page that updateDashboard looks up
DashElements ==
    { "market-status-value", "market-status-card small span",
      "market-status-card small lastChild",
      "volatility-value", "volatility-card small span",
      "volatility-card small lastChild",
      "alerts-value", "alerts-details",
      "session-activity-value", "session-details" }

Has(d, el) == el \in DOMAIN d

\* a + b on two property values
Plus(a, b) ==
    IF a.t \in {"string", "object"} \/ b.t \in {"string", "object"}
    THEN Str(JSString(a) \o JSString(b))
    ELSE IF a.t \in {"undefined", "NaN"} \/ b.t \in {"undefined", "NaN"}
    THEN NaN
    ELSE Num((IF a.t = "number" THEN a.v ELSE 0)
             + (IF b.t = "number" THEN b.v ELSE 0))

MarketStatus(data, d) ==
    IF ~CanRead(data) THEN Raise(d, "TypeError")
    ELSE IF Has(d, "market-status-value") /\ Truthy(Get(data, "market_status"))
    THEN Done([d EXCEPT !["market-status-value"] =
                           JSString(Get(data, "market_status"))])
    ELSE Done(d)

MarketBreadth(data, d) ==
    LET pct == Get(data, "breadth_pct")
    IN IF Has(d, "market-status-card small span") /\ pct.t # "undefined"
       THEN IF ~HasToFixed(pct) THEN Raise(d, "TypeError")
            ELSE Done([d EXCEPT
                    !["market-status-card small span"] =
                        "+" \o ToFixed(pct, 1)
                            \o "% <i class=\"bi bi-arrow-up\"></i>",
                    !["market-status-card small lastChild"] =
                        " of instruments trending up"])
       ELSE Done(d)

VolatilityValue(data, d) ==
    LET index == Get(data, "volatility_index")
    IN IF Has(d, "volatility-value") /\ index.t # "undefined"
       THEN IF ~HasToFixed(index) THEN Raise(d, "TypeError")
            ELSE Done([d EXCEPT !["volatility-value"] = ToFixed(index, 2)])
       ELSE Done(d)

\* data.volatility_change >= 0 compares after ToNumber (null is 0, a
\* non-numeric string is NaN); (data.volatility_change * 100).toFixed(1)
VolatilityChange(data, d) ==
    LET change == Get(data, "volatility_change")
        number == CASE change.t = "number" -> change
                    [] change.t = "null" -> Num(0)
                    [] OTHER -> NaN
        isPositive == number.t = "number" /\ number.v >= 0
        scaled == IF number.t = "number" THEN Num(number.v * 100) ELSE NaN
    IN IF Has(d, "volatility-card small span") /\ change.t # "undefined"
       THEN Done([d EXCEPT
                !["volatility-card small span"] =
                    (IF isPositive THEN "+" ELSE "") \o ToFixed(scaled, 1)
                    \o "% <i class=\"bi bi-arrow-"
                    \o (IF isPositive THEN "up" ELSE "down") \o "\"></i>",
                !["volatility-card small lastChild"] = " vs. yesterday"])
       ELSE Done(d)

ActionableSignals(data, d) ==
    LET tb == Get(data, "technical_breadth")
        macd_bull_cross == Get(tb, "macd_bull_cross")
        rsi_over_70 == Get(tb, "rsi_over_70")
        pairs_evaluated == Get(tb, "pairs_evaluated")
    IN IF Has(d, "alerts-value") /\ Has(d, "alerts-details") /\ Truthy(tb)
       THEN Done([d EXCEPT
                !["alerts-value"] = JSString(Plus(macd_bull_cross, rsi_over_70)),
                !["alerts-details"] =
                    "<span class=\"text-success\">" \o JSString(macd_bull_cross)
                    \o " MACD crosses</span> | <span class=\"text-danger\">"
                    \o JSString(rsi_over_70)
                    \o " RSI > 70</span><br><small class=\"text-muted\">Across "
                    \o JSString(pairs_evaluated) \o " pairs</small>"])
       ELSE Done(d)

SessionActivity(data, d) ==
    IF Has(d, "session-activity-value") /\ Has(d, "session-details")
       /\ Truthy(Get(data, "session_activity"))
    THEN Done([d EXCEPT
             !["session-activity-value"] =
                 JSString(Get(data, "session_activity")),
             !["session-details"] =
                 "<span class=\"text-success\">"
                 \o JSString(Get(data, "current_session"))
                 \o " <i class=\"bi bi-record-fill text-danger\"></i></span> Open"])
    ELSE Done(d)

updateDashboard(data, d) ==
    LET S1(x) == MarketBreadth(data, x)
        S2(x) == VolatilityValue(data, x)
        S3(x) == VolatilityChange(data, x)
        S4(x) == ActionableSignals(data, x)
        S5(x) == SessionActivity(data, x)
    IN Then(Then(Then(Then(Then(MarketStatus(data, d), S1), S2), S3), S4), S5)

\* variant: JSON.parse outside any try, as in the inline template script
DashHandleMessage_NoTry(raw, d) ==
    LET parsed == JSONParse(raw)
    IN IF ~parsed.ok THEN Raise(d, "SyntaxError")
       ELSE updateDashboard(parsed.value, d)

\* the body of dashSocket.onmessage: try { JSON.parse; updateDashboard }
\* catch (err) { console.error }
DashHandleMessage(raw, d) ==
    LET parsed == JSONParse(raw)
    IN IF ~parsed.ok THEN Done(d)
       ELSE Done(updateDashboard(parsed.value, d).dom)

----------------------------------------------------------------------------
(* mi_socket.js: frames *)

EURUSD ==
    Obj([symbol |-> Str("EURUSD"), priority |-> Str("high"),
         narrative |-> Str("breakout"), confidence |-> Num(820),
         timestamp |-> Str("2024-01-01T00:00:00Z")])

GBPJPY ==
    Obj([symbol |-> Str("GBPJPY"), priority |-> Str("urgent"),
         narrative |-> Str("range"), confidence |-> Num(455),
         timestamp |-> Str("2024-01-01T00:05:00Z")])

AAPL ==
    Obj([symbol |-> Str("AAPL"), priority |-> Str("low"),
         narrative |-> Str("earnings drift"), confidence |-> Num(600),
         timestamp |-> Str("2024-01-01T00:10:00Z")])

\* JSON.parse of the frames the market-intelligence stream delivers; in the
\* frame texts EURUSD, GBPJPY and AAPL stand for the JSON of the narratives
\* above
MIParse(raw) ==
    CASE raw = "{\"type\":\"market_intelligence\",\"data\":{\"crypto\":[]}}" ->
           [ok |-> TRUE, value |-> Obj([
               type |-> Str("market_intelligence"),
               data |-> OrdObj(<<"crypto">>, [crypto |-> Arr(<<>>)])])]
      [] raw = "{\"type\":\"market_intelligence\",\"data\":{\"forex\":[EURUSD]},\"timestamp\":\"2024-01-01T00:00:01Z\"}" ->
           [ok |-> TRUE, value |-> Obj([
               type |-> Str("market_intelligence"),
               data |-> OrdObj(<<"forex">>, [forex |-> Arr(<<EURUSD>>)]),
               timestamp |-> Str("2024-01-01T00:00:01Z")])]
      [] raw = "{\"type\":\"immediate_update\",\"data\":{\"forex\":[GBPJPY,EURUSD],\"bonds\":[EURUSD],\"stocks\":[AAPL]},\"timestamp\":\"2024-01-01T00:10:01Z\"}" ->
           [ok |-> TRUE, value |-> Obj([
               type |-> Str("immediate_update"),
               data |-> OrdObj(<<"forex", "bonds", "stocks">>,
                               [forex |-> Arr(<<GBPJPY, EURUSD>>),
                                bonds |-> Arr(<<EURUSD>>),
                                stocks |-> Arr(<<AAPL>>)]),
               timestamp |-> Str("2024-01-01T00:10:01Z")])]
      [] raw = "{\"type\":\"market_intelligence\",\"data\":{\"forex\":[AAPL,null],\"crypto\":[EURUSD]}}" ->
           [ok |-> TRUE, value |-> Obj([
               type |-> Str("market_intelligence"),
               data |-> OrdObj(<<"forex", "crypto">>,
                               [forex |-> Arr(<<AAPL, Null>>),
                                crypto |-> Arr(<<EURUSD>>)])])]
      [] raw = "{\"type\":\"market_intelligence\",\"data\":{\"constructor\":[null],\"stocks\":[AAPL]}}" ->
           [ok |-> TRUE, value |-> Obj([
               type |-> Str("market_intelligence"),
               data |-> OrdObj(<<"constructor", "stocks">>,
                               [constructor |-> Arr(<<Null>>),
                                stocks |-> Arr(<<AAPL>>)])])]
      [] raw = "{\"type\":\"preferences_updated\"}" ->
           [ok |-> TRUE, value |-> Obj([type |-> Str("preferences_updated")])]
      [] raw = "{\"type\":\"error\",\"message\":\"Rate limited\"}" ->
           [ok |-> TRUE, value |-> Obj([type |-> Str("error"),
                                        message |-> Str("Rate limited")])]
      [] raw = "{\"type\":\"heartbeat\"}" ->
           [ok |-> TRUE, value |-> Obj([type |-> Str("heartbeat")])]
      [] raw = "null" -> [ok |-> TRUE, value |-> Null]
      [] OTHER -> [ok |-> FALSE, value |-> Undefined]

MIFrames ==
    { "{\"type\":\"market_intelligence\",\"data\":{\"crypto\":[]}}",
      "{\"type\":\"market_intelligence\",\"data\":{\"forex\":[EURUSD]},\"timestamp\":\"2024-01-01T00:00:01Z\"}",
      "{\"type\":\"immediate_update\",\"data\":{\"forex\":[GBPJPY,EURUSD],\"bonds\":[EURUSD],\"stocks\":[AAPL]},\"timestamp\":\"2024-01-01T00:10:01Z\"}",
      "{\"type\":\"market_intelligence\",\"data\":{\"forex\":[AAPL,null],\"crypto\":[EURUSD]}}",
      "{\"type\":\"market_intelligence\",\"data\":{\"constructor\":[null],\"stocks\":[AAPL]}}",
      "{\"type\":\"preferences_updated\"}",
      "{\"type\":\"error\",\"message\":\"Rate limited\"}",
      "{\"type\":\"heartbeat\"}",
      "null",
      "<html>502 Bad Gateway</html>" }

----------------------------------------------------------------------------
(* mi_socket.js: rendering *)

\* this.assetContainers: asset class -> element of the page
assetContainers ==
    [forex |-> "forex-intelligence-container",
     crypto |-> "crypto-intelligence-container",
     stocks |-> "stocks-intelligence-container"]

assetIcons ==
    [forex |-> "bi-currency-exchange",
     crypto |-> "bi-currency-bitcoin",
     stocks |-> "bi-graph-up"]

priorityClasses ==
    [high |-> "alert-danger", medium |-> "alert-warning", low |-> "alert-info"]

MIElements ==
    { "forex-intelligence-container", "crypto-intelligence-container",
      "stocks-intelligence-container", "last-updated-time" }

\* table[key] || fallback, for a key that is a JavaScript value
Lookup(table, key, fallback) ==
    IF key.t = "string" /\ key.v \in DOMAIN table THEN table[key.v] ELSE fallback

\* new Date(x).toLocaleTimeString()
LocaleTime(x) ==
    IF x.t = "string" THEN "time(" \o x.v \o ")" ELSE "Invalid Date"

\* x * 100 for the confidence: a number stays a number, null is 0, the rest NaN
Times100(x) ==
    CASE x.t = "number" -> Num(x.v * 100)
      [] x.t = "null" -> Num(0)
      [] OTHER -> NaN

\* the markup of one narrative, appended to the container by forEach
NarrativeElement(assetClass, narrative) ==
    "<div class=\"alert "
    \o Lookup(priorityClasses, Get(narrative, "priority"), "alert-secondary")
    \o "\"><i class=\"" \o Lookup(assetIcons, Str(assetClass), "bi-circle")
    \o "\"></i>" \o JSString(Get(narrative, "symbol"))
    \o "<span class=\"badge\">" \o JSString(Get(narrative, "priority"))
    \o "</span><p>" \o JSString(Get(narrative, "narrative")) \o "</p><small>"
    \o LocaleTime(Get(narrative, "timestamp")) \o " Confidence: "
    \o ToFixed(Times100(Get(narrative, "confidence")), 0) \o "%</small></div>"

NoData(assetClass) ==
    "<div class=\"text-muted\"><i class=\"" \o assetIcons[assetClass]
    \o "\"></i><p>No market intelligence available for " \o assetClass
    \o "</p><small>Check back later for updates</small></div>"

\* narratives.forEach(...) from item k on: container.innerHTML += element
RECURSIVE ForEachNarrative(_, _, _, _, _)
ForEachNarrative(assetClass, items, k, container, d) ==
    IF k > Len(items) THEN Done(d)
    ELSE IF ~CanRead(items[k]) THEN Raise(d, "TypeError")
    ELSE ForEachNarrative(assetClass, items, k + 1, container,
             [d EXCEPT ![container] = @ \o NarrativeElement(assetClass, items[k])])

\* narratives.length, as far as "narratives && narratives.length > 0" needs it
LengthOf(x) ==
    CASE x.t = "array" -> Len(x.items)
      [] x.t = "string" -> Len(x.v)
      [] OTHER -> 0

\* names that this.assetContainers[assetClass] finds on Object.prototype: the
\* value is a function or an object, truthy and not an element of the page
InheritedNames ==
    {"constructor", "toString", "valueOf", "hasOwnProperty", "__proto__"}

\* the body of updateAssetDashboard when the container is such a value: the
\* innerHTML it writes is an ordinary property and no element changes, but
\* the narratives are still read
RenderOffPage(assetClass, narratives, d) ==
    LET scratch == (assetClass :> "") @@ d
        r == IF Truthy(narratives) /\ LengthOf(narratives) > 0
             THEN IF narratives.t # "array" THEN Raise(scratch, "TypeError")
                  ELSE ForEachNarrative(assetClass, narratives.items, 1,
                                        assetClass, scratch)
             ELSE Done(scratch)
    IN [dom |-> d, raised |-> r.raised]

\* variant: the container is not cleared before the narratives are appended
updateAssetDashboard_NoClear(assetClass, narratives, d) ==
    IF assetClass \in InheritedNames
    THEN RenderOffPage(assetClass, narratives, d)
    ELSE IF assetClass \notin DOMAIN assetContainers
       \/ ~Has(d, assetContainers[assetClass])
    THEN Done(d)
    ELSE LET container == assetContainers[assetClass]
         IN IF Truthy(narratives) /\ LengthOf(narratives) > 0
            THEN IF narratives.t # "array" THEN Raise(d, "TypeError")
                 ELSE ForEachNarrative(assetClass, narratives.items, 1,
                                       container, d)
            ELSE Done([d EXCEPT ![container] = NoData(assetClass)])

\* updateAssetDashboard: "if (!container) return" skips a key whose lookup in
\* this.assetContainers is undefined or null
updateAssetDashboard(assetClass, narratives, d) ==
    IF assetClass \in InheritedNames
    THEN RenderOffPage(assetClass, narratives, d)
    ELSE IF assetClass \notin DOMAIN assetContainers
       \/ ~Has(d, assetContainers[assetClass])
    THEN Done(d)
    ELSE LET container == assetContainers[assetClass]
             cleared == [d EXCEPT ![container] = ""]
         IN IF Truthy(narratives) /\ LengthOf(narratives) > 0
            THEN IF narratives.t # "array" THEN Raise(cleared, "TypeError")
                 ELSE ForEachNarrative(assetClass, narratives.items, 1,
                                       container, cleared)
            ELSE Done([cleared EXCEPT ![container] = NoData(assetClass)])

\* updateAllAssetDashboards: for (const [assetClass, narratives] of
\* Object.entries(narrativesByAsset)), from entry k on
RECURSIVE ForEachAsset(_, _, _)
ForEachAsset(narrativesByAsset, k, d) ==
    IF k > Len(narrativesByAsset.keys) THEN Done(d)
    ELSE LET assetClass == narrativesByAsset.keys[k]
             r == updateAssetDashboard(assetClass,
                                       narrativesByAsset.fields[assetClass], d)
         IN IF r.raised # "none" THEN r
            ELSE ForEachAsset(narrativesByAsset, k + 1, r.dom)

\* Object.entries raises TypeError on null and undefined; the entries of an
\* array, a string or a number carry no asset-class key
updateAllAssetDashboards(narrativesByAsset, d) ==
    IF ~CanRead(narrativesByAsset) THEN Raise(d, "TypeError")
    ELSE IF narrativesByAsset.t = "object" /\ "keys" \in DOMAIN narrativesByAsset
    THEN ForEachAsset(narrativesByAsset, 1, d)
    ELSE Done(d)

updateLastUpdatedTime(timestamp, d) ==
    IF Has(d, "last-updated-time")
    THEN Done([d EXCEPT !["last-updated-time"] = LocaleTime(timestamp)])
    ELSE Done(d)

\* showToast(message, type): console.log(`${type.toUpperCase()}: ${message}`)
showToast(message, type) == [message |-> message, type |-> type]

NoToast == [message |-> "", type |-> ""]

\* variant: the switch has a default case that toasts the unknown type
handleMessage_ToastsUnknown(raw, d) ==
    LET parsed == MIParse(raw)
        data == parsed.value
        type == Get(data, "type")
        S1(x) == updateLastUpdatedTime(Get(data, "timestamp"), x)
    IN IF ~parsed.ok \/ ~CanRead(data) THEN [dom |-> d, toast |-> NoToast]
       ELSE IF type.t = "string"
               /\ type.v \in {"market_intelligence", "immediate_update"}
       THEN [dom |-> Then(updateAllAssetDashboards(Get(data, "data"), d), S1).dom,
             toast |-> NoToast]
       ELSE IF type.t = "string" /\ type.v = "preferences_updated"
       THEN [dom |-> d,
             toast |-> showToast("Preferences updated successfully", "success")]
       ELSE IF type.t = "string" /\ type.v = "error"
       THEN [dom |-> d,
             toast |-> showToast(JSString(Get(data, "message")), "danger")]
       ELSE [dom |-> d,
             toast |-> showToast("Unknown message type", "warning")]

\* handleMessage: everything runs inside try { } catch (error) { console.error }.
\* The result is the page and the toast shown by this frame, if any.
handleMessage(raw, d) ==
    LET parsed == MIParse(raw)
        data == parsed.value
        type == Get(data, "type")
        S1(x) == updateLastUpdatedTime(Get(data, "timestamp"), x)
    IN IF ~parsed.ok \/ ~CanRead(data) THEN [dom |-> d, toast |-> NoToast]
       ELSE IF type.t = "string"
               /\ type.v \in {"market_intelligence", "immediate_update"}
       THEN [dom |-> Then(updateAllAssetDashboards(Get(data, "data"), d), S1).dom,
             toast |-> NoToast]
       ELSE IF type.t = "string" /\ type.v = "preferences_updated"
       THEN [dom |-> d,
             toast |-> showToast("Preferences updated successfully", "success")]
       ELSE IF type.t = "string" /\ type.v = "error"
       THEN [dom |-> d,
             toast |-> showToast(JSString(Get(data, "message")), "danger")]
       ELSE [dom |-> d, toast |-> NoToast]

\* WebSocket.send(text): InvalidStateError while connecting, queued on an open
\* socket, discarded on a closing or closed one
SocketSend(ss, i, out, text) ==
    CASE ss[i].readyState = "CONNECTING" ->
           [sent |-> out, raised |-> "InvalidStateError"]
      [] ss[i].readyState = "OPEN" ->
           [sent |-> Append(out, text), raised |-> "none"]
      [] OTHER -> [sent |-> out, raised |-> "none"]

----------------------------------------------------------------------------
(* dash_socket.js: connection *)

\* const wsProtocol = window.location.protocol === "https:" ? "wss" : "ws"
wsProtocol == IF location.protocol = "https:" THEN "wss" ELSE "ws"

\* `${wsProtocol}://${location.host}/ws/dashboard/`
wsUrl == wsProtocol \o "://" \o location.host \o "/ws/dashboard/"

\* variant: connectDashSocket also arms a retry timer for the socket it creates
connectDashSocket_ArmsRetry(ts, ctor) ==
    [timers |-> IF ctor = "ok"
                THEN SetTimeout(ClearTimeout(ts, reconnectState.timeout),
                                RECONNECT_DELAY)
                ELSE ClearTimeout(ts, reconnectState.timeout),
     sockets |-> IF ctor = "ok" THEN Append(sockets, WebSocket(wsUrl))
                                ELSE sockets,
     dashSocket |-> IF ctor = "ok" THEN Len(sockets) + 1 ELSE dashSocket,
     raised |-> IF ctor = "ok" THEN "none" ELSE ctor]

\* connectDashSocket on timer table ts: clears the remembered timer, then
\* constructs the socket and attaches the four handlers.  When the
\* constructor throws, the exception leaves connectDashSocket.
connectDashSocket(ts, ctor) ==
    [timers |-> ClearTimeout(ts, reconnectState.timeout),
     sockets |-> IF ctor = "ok" THEN Append(sockets, WebSocket(wsUrl))
                                ELSE sockets,
     dashSocket |-> IF ctor = "ok" THEN Len(sockets) + 1 ELSE dashSocket,
     raised |-> IF ctor = "ok" THEN "none" ELSE ctor]

\* variant: every reconnect attempt starts the attempt count afresh
DashTimerFire_ResetsAttempts(t, ctor) ==
    /\ page = "dashboard"
    /\ ~InCloseTask
    /\ t \in Pending(timers)
    /\ Len(sockets) < MaxSockets
    /\ LET r == connectDashSocket([timers EXCEPT ![t].status = "fired"], ctor)
       IN /\ timers' = r.timers
          /\ sockets' = r.sockets
          /\ dashSocket' = r.dashSocket
          /\ last' = Event("timer", t, r.raised)
    /\ reconnectState' = [reconnectState EXCEPT !.attempts = 0]
    /\ UNCHANGED <<page, location, stopCalls, dispatched, dom, miVars, backoffVars>>

\* the reconnect timer fires: the browser retires it and runs connectDashSocket
DashTimerFire(t, ctor) ==
    /\ page = "dashboard"
    /\ ~InCloseTask
    /\ t \in Pending(timers)
    /\ Len(sockets) < MaxSockets
    /\ LET r == connectDashSocket([timers EXCEPT ![t].status = "fired"], ctor)
       IN /\ timers' = r.timers
          /\ sockets' = r.sockets
          /\ dashSocket' = r.dashSocket
          /\ last' = Event("timer", t, r.raised)
    /\ UNCHANGED <<page, location, reconnectState, stopCalls, dispatched, dom, miVars, backoffVars>>

\* variant: onopen logs but keeps the attempt count
DashOnOpen_KeepsAttempts(i) ==
    /\ page = "dashboard"
    /\ ~InCloseTask
    /\ i \in 1..Len(sockets)
    /\ sockets[i].readyState = "CONNECTING"
    /\ sockets' = [sockets EXCEPT ![i].readyState = "OPEN"]
    /\ last' = Event("open", i, "none")
    /\ UNCHANGED <<page, location, timers, dashSocket, reconnectState, stopCalls,
                   dispatched, dom, miVars, backoffVars>>

\* dashSocket.onopen
DashOnOpen(i) ==
    /\ page = "dashboard"
    /\ ~InCloseTask
    /\ i \in 1..Len(sockets)
    /\ sockets[i].readyState = "CONNECTING"
    /\ sockets' = [sockets EXCEPT ![i].readyState = "OPEN"]
    /\ reconnectState' = [reconnectState EXCEPT !.attempts = 0]
    /\ last' = Event("open", i, "none")
    /\ UNCHANGED <<page, location, timers, dashSocket, stopCalls, dispatched, dom, miVars, backoffVars>>

\* dashSocket.onmessage; the browser fires message only on an open socket
DashOnMessage(i, raw) ==
    /\ page = "dashboard"
    /\ ~InCloseTask
    /\ i \in 1..Len(sockets)
    /\ sockets[i].readyState = "OPEN"
    /\ dispatched < MaxFrames
    /\ LET r == DashHandleMessage(raw, dom)
       IN /\ dom' = r.dom
          /\ last' = Event("message", raw, r.raised)
    /\ dispatched' = dispatched + 1
    /\ UNCHANGED <<page, location, sockets, timers, dashSocket, reconnectState, stopCalls,
                   miVars, backoffVars>>

\* variant: onerror schedules a reconnect of its own
DashOnError_SchedulesReconnect(i) ==
    /\ page = "dashboard"
    /\ ~InCloseTask
    /\ i \in 1..Len(sockets)
    /\ sockets[i].readyState # "CLOSED"
    /\ sockets' = [sockets EXCEPT ![i].readyState = "CLOSED"]
    /\ timers' = SetTimeout(timers, exponentialBackoff(reconnectState.attempts))
    /\ reconnectState' = [reconnectState EXCEPT !.timeout = Len(timers) + 1]
    /\ last' = Event("error", i, "none")
    /\ UNCHANGED <<page, location, dashSocket, stopCalls, dispatched, dom, miVars,
                   backoffVars>>

\* dashSocket.onerror: logs only ("Let onclose handle reconnection")
DashOnError(i) ==
    /\ page = "dashboard"
    /\ ~InCloseTask
    /\ i \in 1..Len(sockets)
    /\ sockets[i].readyState # "CLOSED"
    /\ sockets' = [sockets EXCEPT ![i].readyState = "CLOSED"]
    /\ last' = Event("error", i, "none")
    /\ UNCHANGED <<page, location, timers, dashSocket, reconnectState, stopCalls,
                   dispatched, dom, miVars, backoffVars>>

\* variant: every reconnect is scheduled after RECONNECT_DELAY
DashOnClose_FixedDelay(i) ==
    /\ page = "dashboard"
    /\ i \in 1..Len(sockets)
    /\ ~sockets[i].closeDelivered
    /\ InCloseTask => sockets[i].readyState = "CLOSED"
    /\ sockets' = [sockets EXCEPT ![i].readyState = "CLOSED",
                                  ![i].closeDelivered = TRUE]
    /\ timers' = SetTimeout(timers, RECONNECT_DELAY)
    /\ reconnectState' = [attempts |-> reconnectState.attempts + 1,
                          timeout |-> Len(timers) + 1]
    /\ last' = Event("close", i, "none")
    /\ UNCHANGED <<page, location, dashSocket, stopCalls, dispatched, dom, miVars,
                   backoffVars>>

\* dashSocket.onclose
DashOnClose(i) ==
    /\ page = "dashboard"
    /\ i \in 1..Len(sockets)
    /\ ~sockets[i].closeDelivered
    /\ InCloseTask => sockets[i].readyState = "CLOSED"
    /\ sockets' = [sockets EXCEPT ![i].readyState = "CLOSED",
                                  ![i].closeDelivered = TRUE]
    /\ LET attempts == reconnectState.attempts + 1
           delay == exponentialBackoff(attempts)
       IN /\ timers' = SetTimeout(timers, delay)
          /\ reconnectState' = [attempts |-> attempts,
                                timeout |-> Len(timers) + 1]
    /\ last' = Event("close", i, "none")
    /\ UNCHANGED <<page, location, dashSocket, stopCalls, dispatched, dom, miVars, backoffVars>>

\* variant: the listener closes the socket but leaves the timer alone
DashStop_KeepsTimer ==
    /\ page = "dashboard"
    /\ ~InCloseTask
    /\ stopCalls < MaxStops
    /\ sockets' = IF dashSocket # 0 THEN SocketClose(sockets, dashSocket)
                                    ELSE sockets
    /\ stopCalls' = stopCalls + 1
    /\ last' = Event("stop", stopCalls + 1, "none")
    /\ UNCHANGED <<page, location, timers, dashSocket, reconnectState, dispatched, dom,
                   miVars, backoffVars>>

\* the beforeunload listener registered by initialize()
DashStop ==
    /\ page = "dashboard"
    /\ ~InCloseTask
    /\ stopCalls < MaxStops
    /\ sockets' = IF dashSocket # 0 THEN SocketClose(sockets, dashSocket)
                                    ELSE sockets
    /\ timers' = ClearTimeout(timers, reconnectState.timeout)
    /\ stopCalls' = stopCalls + 1
    /\ last' = Event("stop", stopCalls + 1, "none")
    /\ UNCHANGED <<page, location, dashSocket, reconnectState, dispatched, dom, miVars, backoffVars>>

DashNext ==
    \/ \E t \in 1..MaxSockets, ctor \in CtorOutcomes : DashTimerFire(t, ctor)
    \/ \E i \in 1..MaxSockets : DashOnOpen(i)
    \/ \E i \in 1..MaxSockets, raw \in DashFrames : DashOnMessage(i, raw)
    \/ \E i \in 1..MaxSockets : DashOnError(i)
    \/ \E i \in 1..MaxSockets : DashOnClose(i)
    \/ DashStop

----------------------------------------------------------------------------
(* mi_socket.js: connection *)

\* the connection opens; the client sets no onopen handler
MIOpen(i) ==
    /\ page = "market-intelligence"
    /\ ~InCloseTask
    /\ i \in 1..Len(sockets)
    /\ sockets[i].readyState = "CONNECTING"
    /\ sockets' = [sockets EXCEPT ![i].readyState = "OPEN"]
    /\ last' = Event("open", i, "none")
    /\ UNCHANGED <<page, location, timers, dispatched, dom, miVars, dashVars, backoffVars>>

\* socket.onmessage = (e) => this.handleMessage(e)
MIOnMessage(i, raw) ==
    /\ page = "market-intelligence"
    /\ ~InCloseTask
    /\ i \in 1..Len(sockets)
    /\ sockets[i].readyState = "OPEN"
    /\ dispatched < MaxFrames
    /\ LET r == handleMessage(raw, dom)
       IN /\ dom' = r.dom
          /\ toast' = IF r.toast = NoToast THEN toast ELSE r.toast
    /\ last' = Event("message", raw, "none")
    /\ dispatched' = dispatched + 1
    /\ UNCHANGED <<page, location, sockets, timers, socket, sent, dashVars, backoffVars>>

\* handleError
MIOnError(i) ==
    /\ page = "market-intelligence"
    /\ ~InCloseTask
    /\ i \in 1..Len(sockets)
    /\ sockets[i].readyState # "CLOSED"
    /\ sockets' = [sockets EXCEPT ![i].readyState = "CLOSED"]
    /\ toast' = showToast("Connection error", "danger")
    /\ last' = Event("error", i, "none")
    /\ UNCHANGED <<page, location, timers, socket, sent, dispatched, dom, dashVars,
                   backoffVars>>

\* variant: handleClose reconnects only after a close without an error
MIOnClose_CleanOnly(i) ==
    /\ page = "market-intelligence"
    /\ i \in 1..Len(sockets)
    /\ ~sockets[i].closeDelivered
    /\ InCloseTask => sockets[i].readyState = "CLOSED"
    /\ sockets' = [sockets EXCEPT ![i].readyState = "CLOSED",
                                  ![i].closeDelivered = TRUE]
    /\ toast' = showToast("Connection to market intelligence service lost",
                          "warning")
    /\ timers' = IF InCloseTask THEN timers ELSE SetTimeout(timers, 5000)
    /\ last' = Event("close", i, "none")
    /\ UNCHANGED <<page, location, socket, sent, dispatched, dom, dashVars, backoffVars>>

\* handleClose
MIOnClose(i) ==
    /\ page = "market-intelligence"
    /\ i \in 1..Len(sockets)
    /\ ~sockets[i].closeDelivered
    /\ InCloseTask => sockets[i].readyState = "CLOSED"
    /\ sockets' = [sockets EXCEPT ![i].readyState = "CLOSED",
                                  ![i].closeDelivered = TRUE]
    /\ toast' = showToast("Connection to market intelligence service lost",
                          "warning")
    /\ timers' = SetTimeout(timers, 5000)
    /\ last' = Event("close", i, "none")
    /\ UNCHANGED <<page, location, socket, sent, dispatched, dom, dashVars, backoffVars>>

\* 'ws://' + window.location.host + '/ws/market-intelligence/', in the
\* constructor and in reconnect()
MIUrl == "ws://" \o location.host \o "/ws/market-intelligence/"

\* reconnect(): try { this.socket = new WebSocket(...);
\* this.setupEventListeners() } catch (e) { console.error }
reconnect(ctor) ==
    [sockets |-> IF ctor = "ok" THEN Append(sockets, WebSocket(MIUrl))
                                ELSE sockets,
     socket |-> IF ctor = "ok" THEN Len(sockets) + 1 ELSE socket]

\* the timer set by handleClose fires and runs reconnect()
MITimerFire(t, ctor) ==
    /\ page = "market-intelligence"
    /\ ~InCloseTask
    /\ t \in Pending(timers)
    /\ Len(sockets) < MaxSockets
    /\ timers' = [timers EXCEPT ![t].status = "fired"]
    /\ LET r == reconnect(ctor)
       IN /\ sockets' = r.sockets
          /\ socket' = r.socket
    /\ last' = Event("timer", t, "none")
    /\ UNCHANGED <<page, location, toast, sent, dispatched, dom, dashVars, backoffVars>>

\* requestImmediateUpdate(), also the click handler of #refresh-intelligence
requestImmediateUpdate ==
    /\ page = "market-intelligence"
    /\ ~InCloseTask
    /\ Len(sent) < MaxSent
    /\ LET r == SocketSend(sockets, socket, sent, "{\"type\":\"request_update\"}")
       IN /\ sent' = r.sent
          /\ last' = Event("requestImmediateUpdate", socket, r.raised)
    /\ UNCHANGED <<page, location, sockets, timers, socket, toast, dispatched, dom,
                   dashVars, backoffVars>>

\* the preference mappings the page passes, as JSON.stringify writes them
Preferences == { "{\"assets\":[\"forex\"]}" }

updatePreferences(preferences) ==
    /\ page = "market-intelligence"
    /\ ~InCloseTask
    /\ Len(sent) < MaxSent
    /\ LET r == SocketSend(sockets, socket, sent,
                    "{\"type\":\"set_preferences\",\"preferences\":"
                    \o preferences \o "}")
       IN /\ sent' = r.sent
          /\ last' = Event("updatePreferences", socket, r.raised)
    /\ UNCHANGED <<page, location, sockets, timers, socket, toast, dispatched, dom,
                   dashVars, backoffVars>>

MINext ==
    \/ \E i \in 1..MaxSockets : MIOpen(i)
    \/ \E i \in 1..MaxSockets, raw \in MIFrames : MIOnMessage(i, raw)
    \/ \E i \in 1..MaxSockets : MIOnError(i)
    \/ \E i \in 1..MaxSockets : MIOnClose(i)
    \/ \E t \in 1..MaxSockets, ctor \in CtorOutcomes : MITimerFire(t, ctor)
    \/ requestImmediateUpdate
    \/ \E preferences \in Preferences : updatePreferences(preferences)

----------------------------------------------------------------------------
(* the inline script of the dashboard template *)

TemplateElements ==
    { "#market-status-value", "#trending-up-value", "#volatility-index-value",
      "#volatility-change-value", "#active-alerts-value",
      "#alerts-change-value", "#session-activity-value",
      "#current-session-value" }

\* 'ws://' + window.location.host + '/ws/dashboard/'
TemplateUrl == "ws://" \o location.host \o "/ws/dashboard/"

\* the frames the stream delivers to the inline script in the model
TemplateFrames ==
    { "{\"market_status\":\"Bullish\",\"breadth_pct\":62.5,\"volatility_index\":21.37,\"volatility_change\":-0.023,\"technical_breadth\":{\"macd_bull_cross\":3,\"rsi_over_70\":2,\"pairs_evaluated\":28},\"session_activity\":\"High\",\"current_session\":\"London\"}",
      "null",
      "Bullish 18.4" }

\* ToNumber, as >= and Math.abs apply it
ToNumber(x) ==
    CASE x.t = "number" -> x
      [] x.t = "null" -> Num(0)
      [] OTHER -> NaN

MathAbs(x) == IF ToNumber(x).t = "NaN" THEN NaN ELSE Num(Abs(ToNumber(x).v))

NonNegative(x) == ToNumber(x).t = "number" /\ ToNumber(x).v >= 0

\* el.innerText = x: null becomes the empty text
InnerText(x) == IF x.t = "null" THEN "" ELSE JSString(x)

\* dashboardSocket.onmessage: JSON.parse and the eight assignments, with no
\* try around them
TemplateOnMessage(raw, d) ==
    LET parsed == JSONParse(raw)
        data == parsed.value
        change == Get(data, "volatility_change")
        alerts == Get(data, "alerts_change")
    IN IF ~parsed.ok THEN Raise(d, "SyntaxError")
       ELSE IF ~CanRead(data) THEN Raise(d, "TypeError")
       ELSE Done([d EXCEPT
           !["#market-status-value"] = InnerText(Get(data, "market_status")),
           !["#trending-up-value"] =
               "<span class=\"text-success\">+"
               \o JSString(Get(data, "trending_up"))
               \o "% <i class=\"bi bi-arrow-up\"></i></span> of instruments trending up",
           !["#volatility-index-value"] =
               InnerText(Get(data, "volatility_index")),
           !["#volatility-change-value"] =
               "<span class=\""
               \o (IF NonNegative(change) THEN "text-danger" ELSE "text-success")
               \o "\">" \o JSString(MathAbs(change)) \o "% <i class=\"bi "
               \o (IF NonNegative(change) THEN "bi-arrow-up" ELSE "bi-arrow-down")
               \o "\"></i></span> vs. yesterday",
           !["#active-alerts-value"] = InnerText(Get(data, "active_alerts")),
           !["#alerts-change-value"] =
               "<span class=\""
               \o (IF NonNegative(alerts) THEN "text-success" ELSE "text-danger")
               \o "\">" \o JSString(MathAbs(alerts)) \o " <i class=\"bi "
               \o (IF NonNegative(alerts) THEN "bi-arrow-up" ELSE "bi-arrow-down")
               \o "\"></i></span> This week",
           !["#session-activity-value"] =
               InnerText(Get(data, "session_activity")),
           !["#current-session-value"] =
               "<span class=\"text-success\">"
               \o JSString(Get(data, "current_session"))
               \o " <i class=\"bi bi-record-fill text-danger\"></i></span> Open"])

\* the connection opens; the script sets no onopen handler
TplOpen(i) ==
    /\ page = "template"
    /\ ~InCloseTask
    /\ i \in 1..Len(sockets)
    /\ sockets[i].readyState = "CONNECTING"
    /\ sockets' = [sockets EXCEPT ![i].readyState = "OPEN"]
    /\ last' = Event("open", i, "none")
    /\ UNCHANGED <<page, location, timers, dispatched, dom, miVars, dashVars,
                   backoffVars>>

\* dashboardSocket.onmessage
TplOnMessage(i, raw) ==
    /\ page = "template"
    /\ ~InCloseTask
    /\ i \in 1..Len(sockets)
    /\ sockets[i].readyState = "OPEN"
    /\ dispatched < MaxFrames
    /\ LET r == TemplateOnMessage(raw, dom)
       IN /\ dom' = r.dom
          /\ last' = Event("message", raw, r.raised)
    /\ dispatched' = dispatched + 1
    /\ UNCHANGED <<page, location, sockets, timers, miVars, dashVars,
                   backoffVars>>

\* dashboardSocket.onerror: logs only
TplOnError(i) ==
    /\ page = "template"
    /\ ~InCloseTask
    /\ i \in 1..Len(sockets)
    /\ sockets[i].readyState # "CLOSED"
    /\ sockets' = [sockets EXCEPT ![i].readyState = "CLOSED"]
    /\ last' = Event("error", i, "none")
    /\ UNCHANGED <<page, location, timers, dispatched, dom, miVars, dashVars,
                   backoffVars>>

\* dashboardSocket.onclose: setTimeout(function() { connectWebSocket(); }, 5000)
TplOnClose(i) ==
    /\ page = "template"
    /\ i \in 1..Len(sockets)
    /\ ~sockets[i].closeDelivered
    /\ InCloseTask => sockets[i].readyState = "CLOSED"
    /\ sockets' = [sockets EXCEPT ![i].readyState = "CLOSED",
                                  ![i].closeDelivered = TRUE]
    /\ timers' = SetTimeout(timers, 5000)
    /\ last' = Event("close", i, "none")
    /\ UNCHANGED <<page, location, dispatched, dom, miVars, dashVars,
                   backoffVars>>

\* the timer fires and calls connectWebSocket, a name the script never
\* defines: ReferenceError, and no socket is created
TplTimerFire(t) ==
    /\ page = "template"
    /\ ~InCloseTask
    /\ t \in Pending(timers)
    /\ timers' = [timers EXCEPT ![t].status = "fired"]
    /\ last' = Event("timer", t, "ReferenceError")
    /\ UNCHANGED <<page, location, sockets, dispatched, dom, miVars, dashVars,
                   backoffVars>>

TemplateNext ==
    \/ \E i \in 1..MaxSockets : TplOpen(i)
    \/ \E i \in 1..MaxSockets, raw \in TemplateFrames : TplOnMessage(i, raw)
    \/ \E i \in 1..MaxSockets : TplOnError(i)
    \/ \E i \in 1..MaxSockets : TplOnClose(i)
    \/ \E t \in 1..MaxSockets : TplTimerFire(t)

----------------------------------------------------------------------------
(* Specification of the clients *)

\* the two streaming clients
Clients == {"dashboard", "market-intelligence"}

Pages == Clients \cup {"template"}

\* DOMContentLoaded has run on page p.  On the dashboard page initialize() has
\* called connectDashSocket once and registered the beforeunload listener; on
\* the market-intelligence page the constructor has created the socket and
\* set its handlers.
Loaded(p) ==
    /\ page = p
    /\ sockets = <<WebSocket(CASE p = "dashboard" -> wsUrl
                                [] p = "market-intelligence" -> MIUrl
                                [] OTHER -> TemplateUrl)>>
    /\ timers = <<>>
    /\ dashSocket = IF p = "dashboard" THEN 1 ELSE 0
    /\ reconnectState = [attempts |-> 0, timeout |-> 0]
    /\ stopCalls = 0
    /\ socket = IF p = "market-intelligence" THEN 1 ELSE 0
    /\ toast = NoToast
    /\ sent = <<>>
    /\ dispatched = 0
    /\ dom = CASE p = "dashboard" -> [el \in DashElements |-> Template]
               [] p = "market-intelligence" -> [el \in MIElements |-> Template]
               [] OTHER -> [el \in TemplateElements |-> Template]
    /\ last = [op |-> "load", arg |-> 0, raised |-> "none", prev |-> "none"]

\* the pages are served over http and over https
Locations ==
    { [protocol |-> "http:", host |-> "lunar.example"],
      [protocol |-> "https:", host |-> "lunar.example"] }

Init ==
    /\ location \in Locations
    /\ \E p \in Pages : Loaded(p)
    /\ attemptA = 0 /\ attemptB = 0 /\ delayA = -1 /\ delayB = -1

Next == DashNext \/ MINext \/ TemplateNext

Spec == Init /\ [][Next]_vars

\* the close task of a failed connection runs to completion: after it has
\* fired error it fires close
CloseTaskCompletes ==
    /\ InCloseTask
    /\ \E i \in 1..MaxSockets : DashOnClose(i) \/ MIOnClose(i) \/ TplOnClose(i)

LiveSpec == Spec /\ WF_vars(CloseTaskCompletes)

\* a pending timer fires once its delay has passed
TimerFires ==
    \E t \in 1..MaxSockets, ctor \in CtorOutcomes :
        DashTimerFire(t, ctor) \/ MITimerFire(t, ctor) \/ TplTimerFire(t)

\* the event loop runs the close task to its end and fires pending timers
RecoverySpec == Spec /\ WF_vars(CloseTaskCompletes) /\ WF_vars(TimerFires)

----------------------------------------------------------------------------
(* Specification of the backoff policy alone: exponentialBackoff applied   *)
(* to two attempt counts                                                   *)

BackoffInit ==
    /\ location = [protocol |-> "https:", host |-> "lunar.example"]
    /\ Loaded("dashboard")
    /\ attemptA \in 0..MaxAttempt
    /\ attemptB \in 0..MaxAttempt
    /\ delayA = -1 /\ delayB = -1

BackoffEval ==
    /\ delayA = -1
    /\ delayA' = exponentialBackoff(attemptA)
    /\ delayB' = exponentialBackoff(attemptB)
    /\ UNCHANGED <<connVars, attemptA, attemptB>>

BackoffNext == BackoffEval

BackoffSpec == BackoffInit /\ [][BackoffNext]_vars

----------------------------------------------------------------------------
(* Properties *)

LastTimer(ts) == ts[Len(ts)]

\* C1: on the dashboard page at most one reconnect timer is pending in every
\* reachable state, and right after a close event exactly one is pending,
\* however many closes came before it without an open.
C1_AtMostOneReconnectTimer ==
    page = "dashboard" =>
        /\ Cardinality(Pending(timers)) <= 1
        /\ last.op = "close" => Cardinality(Pending(timers)) = 1

\* three closes in a row without an open, one timer pending
C1_Witness ==
    /\ page = "dashboard"
    /\ last.op = "close"
    /\ reconnectState.attempts = 3
    /\ Cardinality(Pending(timers)) = 1
    /\ Len(timers) = 3

\* C2: when an open dashboard socket closes, the reconnect is scheduled after
\* exponentialBackoff(0) = 5000 ms.
C2_CloseAfterOpenUsesBaseDelay ==
    [][\A i \in 1..Len(sockets) :
          (DashOnClose(i) /\ sockets[i].readyState = "OPEN")
              => LastTimer(timers').delay = 5000]_vars

\* C3: once the beforeunload listener has run, no step schedules a reconnect
\* timer, creates a socket or changes reconnectState.attempts.
C3_StopIsTerminal ==
    [][(page = "dashboard" /\ stopCalls > 0) =>
          /\ Pending(timers') \subseteq Pending(timers)
          /\ Len(sockets') = Len(sockets)
          /\ reconnectState'.attempts = reconnectState.attempts]_vars

\* C4: every run of the beforeunload listener ends without an exception and
\* with no timer pending, and a run that directly follows another run leaves
\* sockets, timers, dashSocket, reconnectState and the page as they were.
C4_StopIdempotent ==
    [][DashStop =>
          /\ last'.raised = "none"
          /\ Pending(timers') = {}
          /\ last.op = "stop" =>
                 /\ sockets' = sockets
                 /\ timers' = timers
                 /\ dashSocket' = dashSocket
                 /\ reconnectState' = reconnectState
                 /\ dom' = dom]_vars

\* the listener has run twice in succession, the first run having cancelled a
\* pending reconnect timer
C4_Witness ==
    /\ page = "dashboard"
    /\ last.op = "stop" /\ last.prev = "stop"
    /\ \E t \in 1..Len(timers) : timers[t].status = "cleared"
    /\ Pending(timers) = {}

\* C5: once the beforeunload listener has run, no frame reaches
\* dashSocket.onmessage.
C5_NoFrameAfterStop ==
    [][(page = "dashboard" /\ stopCalls > 0) => dispatched' = dispatched]_vars

C7_BackoffFormula ==
    delayA # -1 =>
        /\ delayA = (IF 5000 * 2 ^ attemptA < 60000 THEN 5000 * 2 ^ attemptA
                                                    ELSE 60000)
        /\ attemptA = 0 => delayA = 5000
        /\ attemptA <= attemptB => delayA <= delayB
        /\ delayA <= 60000
        /\ delayA >= 0

\* the backoff has been evaluated below and above the cap
C7_Witness ==
    /\ attemptA = 3 /\ delayA = 40000
    /\ attemptB = MaxAttempt /\ delayB = 60000

\* C8: requestImmediateUpdate and updatePreferences called while this.socket
\* is not open send nothing, raise nothing and leave the socket as it was.
C8_CommandsNoOpUnlessOpen ==
    [][((requestImmediateUpdate \/ \E p \in Preferences : updatePreferences(p))
          /\ sockets[socket].readyState # "OPEN")
         => /\ sent' = sent
            /\ last'.raised = "none"
            /\ sockets' = sockets]_vars

\* C9: in both clients an error event is followed by a pending reconnect timer.
C9_ErrorLeadsToReconnect ==
    (page \in Clients /\ last.op = "error") ~> (Pending(timers) # {})

\* the close that follows an error has scheduled the reconnect
C9_Witness ==
    /\ page \in Clients
    /\ last.op = "close" /\ last.prev = "error"
    /\ Pending(timers) # {}

\* a frame whose text JSON.parse rejects
NotJSON(raw) ==
    IF page = "dashboard" THEN ~JSONParse(raw).ok ELSE ~MIParse(raw).ok

\* C10: a message event whose text is not JSON lets no exception escape the
\* handler and leaves sockets, timers, the client's connection fields, the
\* page and the toast unchanged.
C10_NonJSONFrameIsDropped ==
    [][(page \in Clients /\ last'.op = "message"
          /\ dispatched' = dispatched + 1 /\ NotJSON(last'.arg))
         => /\ last'.raised = "none"
            /\ sockets' = sockets
            /\ timers' = timers
            /\ dashSocket' = dashSocket
            /\ reconnectState' = reconnectState
            /\ socket' = socket
            /\ toast' = toast
            /\ dom' = dom]_vars

\* a non-JSON frame has been dispatched onto a page that an earlier frame had
\* already rendered
C10_Witness ==
    /\ page \in Clients
    /\ last.op = "message"
    /\ NotJSON(last.arg)
    /\ dispatched = 2
    /\ \E el \in DOMAIN dom : dom[el] # Template

\* a frame that is JSON but carries a recognised field of the wrong type or a
\* narrative that is not an object
SchemaMismatched(raw) ==
    raw \in { "{\"market_status\":\"Bearish\",\"breadth_pct\":\"n/a\"}",
              "{\"type\":\"market_intelligence\",\"data\":{\"forex\":[AAPL,null],\"crypto\":[EURUSD]}}" }

\* C11: a message event whose frame is schema-mismatched lets no exception
\* escape, leaves sockets and timers alone and leaves every element of the
\* page with the content it had.
C11_MismatchedFrameIsDropped ==
    [][(page \in Clients /\ last'.op = "message"
          /\ dispatched' = dispatched + 1 /\ SchemaMismatched(last'.arg))
         => /\ last'.raised = "none"
            /\ sockets' = sockets
            /\ timers' = timers
            /\ dom' = dom]_vars

\* the payload field each dashboard element shows
FieldOf ==
    [el \in DashElements |->
        CASE el = "market-status-value" -> "market_status"
          [] el \in {"market-status-card small span",
                     "market-status-card small lastChild"} -> "breadth_pct"
          [] el = "volatility-value" -> "volatility_index"
          [] el \in {"volatility-card small span",
                     "volatility-card small lastChild"} -> "volatility_change"
          [] el \in {"alerts-value", "alerts-details"} -> "technical_breadth"
          [] el = "session-activity-value" -> "session_activity"
          [] OTHER -> "current_session"]

\* C12: when the dashboard handles a frame that is a JSON object, every
\* element whose field is absent from the frame keeps its content; the frame
\* {"volatility_index":18.4} sets volatility-value to "18.40" and so changes
\* nothing else.
C12_AbsentFieldsKeepTheirWidget ==
    [][(page = "dashboard" /\ last'.op = "message"
          /\ dispatched' = dispatched + 1
          /\ JSONParse(last'.arg).value.t = "object")
         => /\ \A el \in DashElements :
                 Get(JSONParse(last'.arg).value, FieldOf[el]).t = "undefined"
                     => dom'[el] = dom[el]
            /\ last'.arg = "{\"volatility_index\":18.4}"
                   => dom'["volatility-value"] = "18.40"]_vars

\* the frame is a market_intelligence or immediate_update frame with a mapping
IntelligenceFrame(raw) ==
    /\ MIParse(raw).ok
    /\ Get(MIParse(raw).value, "type").t = "string"
    /\ Get(MIParse(raw).value, "type").v
           \in {"market_intelligence", "immediate_update"}
    /\ Get(MIParse(raw).value, "data").t = "object"

\* the narrative sequence the frame carries for an asset class
NarrativesOf(raw, assetClass) == Get(Get(MIParse(raw).value, "data"), assetClass)

\* C13: after a market_intelligence or immediate_update frame, the container
\* of every asset class whose sequence is empty or absent holds the no-data
\* markup.
C13_EmptyOrAbsentShowsNoData ==
    [][(page = "market-intelligence" /\ last'.op = "message"
          /\ dispatched' = dispatched + 1 /\ IntelligenceFrame(last'.arg))
         => \A assetClass \in DOMAIN assetContainers :
               (\/ NarrativesOf(last'.arg, assetClass).t = "undefined"
                \/ /\ NarrativesOf(last'.arg, assetClass).t = "array"
                   /\ NarrativesOf(last'.arg, assetClass).items = <<>>)
                   => dom'[assetContainers[assetClass]] = NoData(assetClass)]_vars

\* JSON.parse as the loaded page's handler applies it
Parsed(raw) == IF page = "market-intelligence" THEN MIParse(raw) ELSE JSONParse(raw)

KnownTypes ==
    {"market_intelligence", "immediate_update", "preferences_updated", "error",
     "dashboard_snapshot"}

\* a JSON object frame whose type is a string outside the known variants
UnknownType(raw) ==
    /\ Parsed(raw).ok
    /\ Get(Parsed(raw).value, "type").t = "string"
    /\ Get(Parsed(raw).value, "type").v \notin KnownTypes

\* the connection fields, the page and the toast are as before the step
FrameIgnored ==
    /\ last'.raised = "none"
    /\ sockets' = sockets
    /\ timers' = timers
    /\ dashSocket' = dashSocket
    /\ reconnectState' = reconnectState
    /\ socket' = socket
    /\ toast' = toast
    /\ dom' = dom

RECURSIVE Entries(_, _)
Entries(assetClass, items) ==
    IF items = <<>> THEN ""
    ELSE Entries(assetClass, SubSeq(items, 1, Len(items) - 1))
         \o NarrativeElement(assetClass, items[Len(items)])

\* every sequence of the frame is an array of narrative objects
WellFormed(raw) ==
    /\ IntelligenceFrame(raw)
    /\ \A k \in DOMAIN Get(MIParse(raw).value, "data").fields :
          /\ NarrativesOf(raw, k).t = "array"
          /\ \A n \in 1..Len(NarrativesOf(raw, k).items) :
                NarrativesOf(raw, k).items[n].t = "object"

\* C15: after a well-formed market_intelligence or immediate_update frame the
\* container of every asset class with narratives holds exactly the entries
\* of those narratives in the frame's order, whatever it held before, and
\* handling the same frame again leaves the page as it is.
C15_RegionReplacedInOrder ==
    [][(page = "market-intelligence" /\ last'.op = "message"
          /\ dispatched' = dispatched + 1 /\ WellFormed(last'.arg))
         => /\ \A assetClass \in DOMAIN assetContainers :
                 (/\ NarrativesOf(last'.arg, assetClass).t = "array"
                  /\ NarrativesOf(last'.arg, assetClass).items # <<>>)
                     => dom'[assetContainers[assetClass]] =
                            Entries(assetClass,
                                    NarrativesOf(last'.arg, assetClass).items)
            /\ handleMessage(last'.arg, dom').dom = dom']_vars

\* the forex region held GBPJPY and EURUSD from the immediate_update frame
\* (which is the only one to render stocks) and now holds EURUSD alone
C15_Witness ==
    /\ page = "market-intelligence"
    /\ last.op = "message"
    /\ last.arg = "{\"type\":\"market_intelligence\",\"data\":{\"forex\":[EURUSD]},\"timestamp\":\"2024-01-01T00:00:01Z\"}"
    /\ dom["stocks-intelligence-container"] = NarrativeElement("stocks", AAPL)
    /\ dom["forex-intelligence-container"] = NarrativeElement("forex", EURUSD)

\* the fixed stream path of the loaded page
StreamPath ==
    IF page = "market-intelligence" THEN "/ws/market-intelligence/"
    ELSE "/ws/dashboard/"

\* C16: every socket a client has created has the URL wss://host/path when
\* the page was loaded over https and ws://host/path otherwise.
C16_SchemeFollowsPage ==
    page \in Clients => \A i \in 1..Len(sockets) :
        sockets[i].url =
            (IF location.protocol = "https:" THEN "wss" ELSE "ws")
            \o "://" \o location.host \o StreamPath

\* C17: on the dashboard page, whenever a socket is OPEN,
\* reconnectState.attempts is 0.
C17_OpenMeansZeroAttempts ==
    page = "dashboard" =>
        ((\E i \in 1..Len(sockets) : sockets[i].readyState = "OPEN")
            => reconnectState.attempts = 0)

\* the third socket is open after two failed attempts
C17_Witness ==
    /\ page = "dashboard"
    /\ Len(sockets) = 3
    /\ sockets[3].readyState = "OPEN"
    /\ Len(timers) = 2
    /\ timers[2].delay = 20000
    /\ reconnectState.attempts = 0

\* some socket is connecting or open
Live == \E i \in 1..Len(sockets) : sockets[i].readyState \in {"CONNECTING", "OPEN"}

\* C18: while the beforeunload listener has not run, every close event is
\* followed by a socket that is connecting or open again, so that the server
\* can accept it; this holds after any earlier attempts, an attempt whose
\* constructor threw included.
C18_CloseLeadsToNewConnection ==
    (page \in Clients /\ last.op = "close" /\ stopCalls = 0
       /\ Len(sockets) < MaxSockets)
        ~> (stopCalls > 0 \/ Live)


\* C19: on the page of the inline template script, when the reconnection
\* timer set by a close has fired, a new connection has been created without
\* an error and is connecting or open.
C19_TemplateReconnects ==
    (page = "template" /\ last.op = "timer") =>
        /\ last.raised = "none"
        /\ Len(sockets) >= 2
        /\ sockets[Len(sockets)].readyState \in {"CONNECTING", "OPEN"}


\* the sockets that are connecting or open
LiveSockets ==
    {i \in 1..Len(sockets) : sockets[i].readyState \in {"CONNECTING", "OPEN"}}

\* C20: on the dashboard page at most one socket is connecting or open, no
\* socket is connecting or open while a reconnect timer is pending, and after
\* start a socket is created only by the step in which a pending timer fires.
C20_OneConnectionAtATime ==
    /\ [](page = "dashboard" =>
            /\ Cardinality(LiveSockets) <= 1
            /\ (Pending(timers) # {} => LiveSockets = {}))
    /\ [][(page = "dashboard" /\ Len(sockets') > Len(sockets)) =>
            /\ last'.op = "timer"
            /\ last'.arg \in Pending(timers)
            /\ timers'[last'.arg].status = "fired"
            /\ Len(sockets') = Len(sockets) + 1]_vars

\* a fired timer has created a second socket, the only one connecting or open
C20_Witness ==
    /\ page = "dashboard"
    /\ last.op = "timer" /\ last.raised = "none"
    /\ Len(sockets) >= 2
    /\ LiveSockets = {Len(sockets)}
    /\ Pending(timers) = {}

\* C21: on the dashboard page reconnectState.attempts counts the close events
\* since the most recent open event (since start if no socket opened): it is 0
\* at start, an open event makes it 0, a close event adds one to it, and no
\* other step changes it (a reconnect attempt does not reset it); the close
\* event that makes it k schedules the reconnect after
\* min(RECONNECT_DELAY * 2^k, MAX_RECONNECT_DELAY) ms.
C21_AttemptsCountClosesSinceOpen ==
    /\ ((page = "dashboard" /\ last.op = "load") => reconnectState.attempts = 0)
    /\ [][page = "dashboard" =>
            CASE last'.op = "open" -> reconnectState'.attempts = 0
              [] last'.op = "close" ->
                    /\ reconnectState'.attempts = reconnectState.attempts + 1
                    /\ LastTimer(timers').status = "pending"
                    /\ LastTimer(timers').delay =
                           Min(RECONNECT_DELAY * 2 ^ reconnectState'.attempts,
                               MAX_RECONNECT_DELAY)
              [] OTHER -> reconnectState'.attempts = reconnectState.attempts]_vars

\* the first socket closed unopened, the second opened, and the close of the
\* fifth is the fourth since that open: it has scheduled the capped delay
C21_Witness ==
    /\ page = "dashboard"
    /\ last.op = "close" /\ last.arg = 5
    /\ \A i \in 1..5 : sockets[i].closeDelivered
    /\ reconnectState.attempts = 4
    /\ LastTimer(timers).delay = MAX_RECONNECT_DELAY


\* the frame's mapping of asset classes to narratives
MappingOf(raw) == Get(MIParse(raw).value, "data")

\* the mapping without the keys that have no region
RegionsOnly(m) ==
    OrdObj(SelectSeq(m.keys, LAMBDA k : k \in DOMAIN assetContainers), m.fields)

\* C22: on the market-intelligence page, when a market_intelligence or
\* immediate_update frame is handled, rendering one key of its mapping leaves
\* the region of every other asset class as it was, and the three regions end
\* up as if the keys without a region had not been in the frame.
C22_RegionsIndependentAndUnknownKeysSkipped ==
    [][(page = "market-intelligence" /\ last'.op = "message"
          /\ dispatched' = dispatched + 1 /\ IntelligenceFrame(last'.arg)
          /\ "keys" \in DOMAIN MappingOf(last'.arg))
         => LET m == MappingOf(last'.arg)
            IN /\ \A n \in 1..Len(m.keys) :
                     \A assetClass \in DOMAIN assetContainers \ {m.keys[n]} :
                        updateAssetDashboard(m.keys[n], m.fields[m.keys[n]], dom)
                            .dom[assetContainers[assetClass]]
                          = dom[assetContainers[assetClass]]
               /\ \A assetClass \in DOMAIN assetContainers :
                     dom'[assetContainers[assetClass]]
                       = updateAllAssetDashboards(RegionsOnly(m), dom)
                            .dom[assetContainers[assetClass]]]_vars

====
